---- MODULE Spec2Model ----
(***************************************************************************)
(* Model of internetconsultatie.py: the text pipeline (get_ngrams,         *)
(* jaccard_similarity), the clustering pass (add_components), the          *)
(* resumable crawl (download_responses) and the walk over the closed       *)
(* consultations (download_consultations).                                  *)
(*                                                                         *)
(* Python values are modelled as follows.                                   *)
(*   str            a sequence of one-character strings                     *)
(*   None / NaN     a record with isNone = TRUE (pd.isna is TRUE for both)  *)
(*   float          a pair num/den of integers (jaccard is a ratio of two   *)
(*                  set sizes, a threshold is a decimal fraction)           *)
(***************************************************************************)
EXTENDS Integers, Sequences, FiniteSets, TLC

VARIABLES
    \* ---- get_ngrams called on one row (specification SpecText)
    text,             \* the row's 'text' cell
    text_attachment,  \* the row's 'text_attachment' cell
    n,                \* the n of the n-grams
    n_gram,           \* what get_ngrams returned
    tpc,              \* "call" before the call, "returned" after it
    \* ---- jaccard_similarity called on two sets (specification SpecJaccard)
    set1,             \* the first argument
    set2,             \* the second argument
    jaccard,          \* what jaccard_similarity returned
    jpc,              \* "call" before the call, "returned" after it
    \* ---- add_components called on one frame (specification SpecCluster)
    df,               \* the frame: row index 0..N-1 -> row
    threshold,        \* the similarity threshold, num/den
    edges,            \* the list add_components builds before the graph
    cpc,              \* "call" before the call, "returned" after it
    \* ---- download_responses (specification Spec)
    site,             \* the consultation's pages on the site
    file,             \* the file at path_responses
    pc,               \* where the run of download_responses is
    done,             \* the urls read from the file at the start of the run
    responses,        \* the list of rows of the run
    page,             \* the number of the next listing page
    max_page,         \* the page bound; 0 while it is None
    \* ---- history of the runs, for the properties
    persisted,        \* what the last write that completed wrote
    loaded,           \* what the run's read of the file gave
    fetched,          \* the urls get_response was called with in the run
    pages_fetched,    \* the listing pages requested in the run
    clean_runs,       \* runs completed in a row since the file was absent
    single_run,       \* the rows of the first of those runs
    raised,           \* what ended the run with an error; "none" when nothing did
    unsaved,          \* the listing pages processed since the run's last write
    writes,           \* the url column of each write the run completed
    \* ---- download_consultations (specification SpecConsultations)
    overview,         \* the first page of the closed consultations on the site
    cfile,            \* the file at path_consultations
    dpc,              \* where the run of download_consultations is
    cdone,            \* the urls read from the file at the start of the run
    consultations,    \* the list of rows of the run
    walked,           \* i, the listing pages walked
    parsed,           \* the urls parse_consultation was called with in the run
    craised           \* what ended the run with an error; "none" when nothing did

textVars == <<text, text_attachment, n, n_gram, tpc>>

jaccardVars == <<set1, set2, jaccard, jpc>>

clusterVars == <<df, threshold, edges, cpc>>

crawlVars == <<site, file, pc, done, responses, page, max_page>>

historyVars ==
    <<persisted, loaded, fetched, pages_fetched, clean_runs, single_run, raised,
      unsaved, writes>>

consultVars ==
    <<overview, cfile, dpc, cdone, consultations, walked, parsed, craised>>

vars ==
    <<textVars, jaccardVars, clusterVars, crawlVars, historyVars, consultVars>>

(***************************************************************************)
(* Bounds of the model.                                                     *)
(***************************************************************************)
MaxTextLen == 4       \* longest text, in characters
MaxAttachmentLen == 2 \* longest text of an attachment, in characters
MaxN == 2             \* largest n tried for the n-grams
MaxRows == 3          \* most rows of a frame handed to add_components
MaxGrams == 3         \* distinct n-grams the sets handed to jaccard_similarity draw on
NConsultations == 3   \* closed consultations the site has
NUrls == 2            \* responses the consultation has
MaxPage == 11         \* largest page number the pagination of page 1 shows

(***************************************************************************)
(* Values.                                                                  *)
(***************************************************************************)
Chars == {"a", "b", " "}
Whitespace == {" "}

NoneText == [isNone |-> TRUE, val |-> <<>>]
Str(s) == [isNone |-> FALSE, val |-> s]

NoneGrams == [isNone |-> TRUE, grams |-> {}]
Grams(S) == [isNone |-> FALSE, grams |-> S]

StrsUpTo(k) == UNION {[1..m -> Chars] : m \in 0..k}
Cells(k) == {NoneText} \cup {Str(s) : s \in StrsUpTo(k)}

(***************************************************************************)
(* str.split() with no argument: the maximal runs of non-whitespace         *)
(* characters, in order; leading, trailing and repeated whitespace yield    *)
(* no empty token.  cur is the token being read.                            *)
(***************************************************************************)
RECURSIVE SplitFrom(_, _, _)
SplitFrom(s, i, cur) ==
    IF i > Len(s)
    THEN IF cur = <<>> THEN <<>> ELSE <<cur>>
    ELSE IF s[i] \in Whitespace
         THEN IF cur = <<>>
              THEN SplitFrom(s, i + 1, <<>>)
              ELSE <<cur>> \o SplitFrom(s, i + 1, <<>>)
         ELSE SplitFrom(s, i + 1, Append(cur, s[i]))

Split(s) == SplitFrom(s, 1, <<>>)

(***************************************************************************)
(* nltk.ngrams(sequence, n) then set(): every window of n consecutive       *)
(* tokens, stride 1; no window when the sequence is shorter than n.         *)
(***************************************************************************)
NgramsFirstOnly(tokens, k) ==
    IF Len(tokens) >= k THEN {SubSeq(tokens, 1, k)} ELSE {}

Ngrams(tokens, k) ==
    {SubSeq(tokens, i, i + k - 1) : i \in 1..(Len(tokens) - k + 1)}

(***************************************************************************)
(* get_ngrams(text, text_attachment, n).                                    *)
(***************************************************************************)
pd_notna(x) == ~x.isNone
pd_isna(x) == x.isNone

\* the text get_ngrams goes on with (its local txt)
SelectTxt(t, ta) ==
    IF pd_notna(ta) THEN ta ELSE t

get_ngrams(t, ta, k) ==
    LET txt == SelectTxt(t, ta)
    IN  IF pd_isna(txt) \/ txt.val = <<>>
        THEN NoneGrams
        ELSE Grams(Ngrams(Split(txt.val), k))

(***************************************************************************)
(* jaccard_similarity(ngrams1, ngrams2).  "not x" is TRUE for None and for  *)
(* the empty set.  The result is None or the float num/den.                 *)
(***************************************************************************)
NoneSim == [isNone |-> TRUE, num |-> 0, den |-> 1]
Sim(a, b) == [isNone |-> FALSE, num |-> a, den |-> b]

NotGrams(g) == g.isNone \/ g.grams = {}

jaccard_over_first(a, b) ==
    IF NotGrams(a) \/ NotGrams(b)
    THEN NoneSim
    ELSE Sim(Cardinality(a.grams \cap b.grams), Cardinality(a.grams))

jaccard_similarity(ngrams1, ngrams2) ==
    IF NotGrams(ngrams1) \/ NotGrams(ngrams2)
    THEN NoneSim
    ELSE LET intersection == Cardinality(ngrams1.grams \cap ngrams2.grams)
             union == Cardinality(ngrams1.grams \cup ngrams2.grams)
         IN  IF union = 0 THEN NoneSim ELSE Sim(intersection, union)

\* "not similarity": None and 0.0 are both falsy
NotSimilarity(similarity) == similarity.isNone \/ similarity.num = 0

AtMost(similarity, thr) ==
    similarity.num * thr.den <= thr.num * similarity.den

\* "similarity >= threshold" for a similarity that is a float
AtLeast(similarity, thr) ==
    similarity.num * thr.den >= thr.num * similarity.den

(***************************************************************************)
(* add_components: the frame is a function from the row index 0..N-1 (after *)
(* reset_index) to the row.                                                 *)
(***************************************************************************)
NoneComp == [isNone |-> TRUE, id |-> -1]
Comp(k) == [isNone |-> FALSE, id |-> k]

NRows(frame) == Cardinality(DOMAIN frame)

\* n_grams: get_ngrams of every row, by row index
NGramsOf(frame, k) ==
    [i \in DOMAIN frame |-> get_ngrams(frame[i].text, frame[i].text_attachment, k)]

\* the two nested loops over enumerate(n_grams), from position (i, j) on:
\* the list of the pairs appended, in the order they are appended
RECURSIVE EdgesFrom(_, _, _, _)
EdgesFrom(n_grams, thr, i, j) ==
    LET N == Cardinality(DOMAIN n_grams)
    IN  IF i >= N THEN <<>>
        ELSE IF j >= N THEN EdgesFrom(n_grams, thr, i + 1, 0)
        ELSE LET similarity == jaccard_similarity(n_grams[i], n_grams[j])
                 appended ==
                     IF ~(j > i) THEN <<>>
                     ELSE IF NotSimilarity(similarity) THEN <<>>
                     ELSE IF AtLeast(similarity, thr) THEN << <<i, j>> >>
                     ELSE <<>>
             IN  appended \o EdgesFrom(n_grams, thr, i, j + 1)

BuildEdges(n_grams, thr) == EdgesFrom(n_grams, thr, 0, 0)

\* G.add_edges_from(edges): the graph's nodes in insertion order; each edge
\* inserts its first end and then its second, when the graph lacks them
RECURSIVE NodeOrder(_)
NodeOrder(es) ==
    IF es = <<>> THEN <<>>
    ELSE LET before == NodeOrder(SubSeq(es, 1, Len(es) - 1))
             has(sq, x) == \E k \in 1..Len(sq) : sq[k] = x
             e == es[Len(es)]
             withU == IF has(before, e[1]) THEN before ELSE Append(before, e[1])
         IN  IF has(withU, e[2]) THEN withU ELSE Append(withU, e[2])

\* the nodes a breadth-first search from the set S reaches in the graph
RECURSIVE Reach(_, _)
Reach(es, S) ==
    LET step == S \cup {es[k][2] : k \in {m \in 1..Len(es) : es[m][1] \in S}}
                  \cup {es[k][1] : k \in {m \in 1..Len(es) : es[m][2] \in S}}
    IN  IF step = S THEN S ELSE Reach(es, step)

\* nx.connected_components(G): for v in G, when v is not seen yet, the
\* component of v; the components in the order they are yielded
RECURSIVE ComponentsFrom(_, _, _, _)
ComponentsFrom(es, order, k, seen) ==
    IF k > Len(order) THEN <<>>
    ELSE IF order[k] \in seen THEN ComponentsFrom(es, order, k + 1, seen)
    ELSE LET c == Reach(es, {order[k]})
         IN  <<c>> \o ComponentsFrom(es, order, k + 1, seen \cup c)

connected_components(es) == ComponentsFrom(es, NodeOrder(es), 1, {})

\* for i, component in enumerate(...): for j in component:
\*     df.loc[j, 'component'] = i          (on a frame whose column is None)
AssignComponents(frame, comps) ==
    [j \in DOMAIN frame |->
        IF \E i \in 1..Len(comps) : j \in comps[i]
        THEN [frame[j] EXCEPT
                 !.component = Comp((CHOOSE i \in 1..Len(comps) : j \in comps[i]) - 1)]
        ELSE [frame[j] EXCEPT !.component = NoneComp]]

add_components(frame, k, thr) ==
    AssignComponents(frame, connected_components(BuildEdges(NGramsOf(frame, k), thr)))

Thresholds == {<<0, 1>>, <<3, 10>>, <<1, 2>>, <<1, 1>>}
Threshold(t) == [num |-> t[1], den |-> t[2]]

(***************************************************************************)
(* The site.  A response is named by its url, 1..NUrls.  listing[u] is the  *)
(* set of listing pages that list u; last is the largest page number the    *)
(* pagination of page 1 links to (0: it links to none).  The page of a      *)
(* response and the text of its attachment are fixed by the url.  What the  *)
(* pagination of a later page links to is not fixed.                        *)
(***************************************************************************)
Urls == 1..NUrls
ListingPages == {1, 2, 10}
LastPages == (0..2) \cup (10..MaxPage)

Sites == [listing : [Urls -> SUBSET ListingPages], last : LastPages]

\* get_result_urls of listing page p: the urls it lists, in page order
RECURSIVE UrlsFrom(_, _, _)
UrlsFrom(st, p, u) ==
    IF u > NUrls THEN <<>>
    ELSE (IF p \in st.listing[u] THEN <<u>> ELSE <<>>) \o UrlsFrom(st, p, u + 1)

get_result_urls_first(st, p) ==
    IF UrlsFrom(st, p, 1) = <<>> THEN <<>> ELSE <<Head(UrlsFrom(st, p, 1))>>

get_result_urls(st, p) == UrlsFrom(st, p, 1)

\* the numbers of the pagination's links with an href, on page 1
PaginationLinks(st) == 1..st.last

\* the same on a later page, as far as the run can tell
LaterPaginationLinks == {{}, 1..MaxPage}

\* the blockquotes of the response's page, joined
ResponseText(u) ==
    CASE u % 3 = 1 -> Str(<<"a", " ", "b", " ", "c", " ", "d", " ", "e", " ", "f">>)
      [] u % 3 = 2 -> Str(<<"x">>)
      [] OTHER     -> Str(<<"a", " ", "b">>)

\* download_files: the ids of the response's attachments, joined by ','
ResponseAttachment(u) ==
    IF u % 3 = 2 THEN Str(<<"1">>) ELSE Str(<<>>)

\* textract.process(path).decode('utf8') of the attachment with that id
Textract(attachment) == Str(<<"a", " ", "b", " ", "c", " ", "d", " ", "e">>)

\* get_response(url, ...) with download_attachments: the new row; the
\* columns it lacks are NaN in the frame
get_response(u) ==
    [url |-> u, text |-> ResponseText(u), attachment |-> ResponseAttachment(u),
     text_attachment |-> NoneText, component |-> NoneComp]

(***************************************************************************)
(* The file at path_responses: absent, being written (opened for writing    *)
(* and not closed yet), or the sheet a write that completed left.           *)
(***************************************************************************)
Absent == [state |-> "absent", rows |-> <<>>]
Torn == [state |-> "torn", rows |-> <<>>]
Sheet(rows) == [state |-> "written", rows |-> rows]

\* a cell as read_excel gives it back: an empty string is in the default
\* na_values and comes back NaN
ReadCell(c) == IF c.isNone \/ c.val = <<>> THEN NoneText ELSE c

\* pd.read_excel then [dict(row) for _, row in df.iterrows()]
read_excel(f) ==
    [i \in 1..Len(f.rows) |->
        [f.rows[i] EXCEPT !.text = ReadCell(@), !.attachment = ReadCell(@),
                          !.text_attachment = ReadCell(@)]]

\* pd.DataFrame(responses): the rows under the index 0..N-1
DataFrame(rows) == [i \in 0..(Len(rows) - 1) |-> rows[i + 1]]

\* df.to_excel(path, index=False), once complete: the frame's rows in order
to_excel(frame) == Sheet([i \in 1..NRows(frame) |-> frame[i - 1]])

\* list(df.url)
UrlList(rows) == [i \in 1..Len(rows) |-> rows[i].url]

InList(x, lst) == \E i \in 1..Len(lst) : lst[i] = x

\* extract_text(df, dir_attachments)
extract_text(frame) ==
    [i \in DOMAIN frame |->
        [frame[i] EXCEPT !.text_attachment =
            IF pd_notna(frame[i].attachment) /\ frame[i].attachment.val # <<>>
            THEN Textract(frame[i].attachment)
            ELSE NoneText]]

(***************************************************************************)
(* download_responses(consultation) with the default options.               *)
(***************************************************************************)
DefaultN == 5
DefaultThreshold == Threshold(<<3, 10>>)
CheckpointPages == 10

Running == {"start", "loop", "checkpoint", "fetch", "finalize", "final_write"}

\* line 202: the only failure of the read the run accepts
FileNotFoundOrUnreadable(f) == f.state \in {"absent", "torn"}

FileNotFound(f) == f.state = "absent"

PriorRowsDropped(f) == <<>>

\* line 201: the rows of the file become the rows of the run
PriorRows(f) == read_excel(f)

\* lines 198-206: read the file; a missing file is an empty start, a file
\* that cannot be read raises
Load ==
    /\ pc = "start"
    /\ loaded' = file
    /\ IF FileNotFound(file)
       THEN /\ done' = <<>>
            /\ responses' = <<>>
            /\ pc' = "loop"
            /\ UNCHANGED raised
       ELSE IF file.state = "torn"
       THEN /\ pc' = "error"
            /\ raised' = "read"
            /\ UNCHANGED <<done, responses>>
       ELSE /\ done' = UrlList(read_excel(file))
            /\ responses' = PriorRows(file)
            /\ pc' = "loop"
            /\ UNCHANGED raised
    /\ max_page' = 0
    /\ page' = 1
    /\ UNCHANGED <<site, file, persisted, fetched, pages_fetched, clean_runs,
                   single_run, unsaved, writes, textVars, jaccardVars, consultVars,
                   clusterVars>>

CheckpointDue == page % CheckpointPages = 0 /\ responses # <<>>

\* lines 209-211: to_excel opens the file for writing
CheckpointBegin ==
    /\ pc = "loop"
    /\ CheckpointDue
    /\ file' = Torn
    /\ pc' = "checkpoint"
    /\ UNCHANGED <<site, done, responses, page, max_page, historyVars,
                   textVars, jaccardVars, consultVars, clusterVars>>

\* lines 211-212: the write completes
CheckpointEnd ==
    /\ pc = "checkpoint"
    /\ file' = to_excel(DataFrame(responses))
    /\ persisted' = file'
    /\ writes' = Append(writes, UrlList(file'.rows))
    /\ unsaved' = 0
    /\ pc' = "fetch"
    /\ UNCHANGED <<site, done, responses, page, max_page, loaded, fetched,
                   pages_fetched, clean_runs, single_run, raised, textVars,
                   jaccardVars, consultVars, clusterVars>>

NotDoneAll(result_urls, dn) == result_urls

\* the urls of the page that are not in done, in page order
RECURSIVE NotDone(_, _)
NotDone(result_urls, dn) ==
    IF result_urls = <<>> THEN <<>>
    ELSE (IF InList(Head(result_urls), dn) THEN <<>> ELSE <<Head(result_urls)>>)
         \o NotDone(Tail(result_urls), dn)

SetMax(S) == CHOOSE x \in S : \A y \in S : y <= x

\* "not max_page"
BoundUnset(mp) == mp = 0

ExitLoopEarly(pg, bound) == pg >= bound

ExitLoop(pg, bound) == pg > bound

\* lines 214-237: one listing page and the responses it lists; max() of no
\* link raises
FetchPage ==
    /\ \/ pc = "fetch"
       \/ pc = "loop" /\ ~CheckpointDue
    /\ \E later \in LaterPaginationLinks :
         LET result_urls == get_result_urls(site, page)
             new == NotDone(result_urls, done)
             links == IF page = 1 THEN PaginationLinks(site) ELSE later
         IN  /\ pages_fetched' = Append(pages_fetched, page)
             /\ fetched' = fetched \o new
             /\ responses' = responses \o [i \in 1..Len(new) |-> get_response(new[i])]
             /\ page' = page + 1
             /\ unsaved' = unsaved + 1
             /\ IF BoundUnset(max_page) /\ links = {}
                THEN /\ pc' = "error"
                     /\ raised' = "pagination"
                     /\ UNCHANGED max_page
                ELSE /\ max_page' = IF BoundUnset(max_page) THEN SetMax(links)
                                    ELSE max_page
                     /\ pc' = IF ExitLoop(page', max_page') THEN "finalize" ELSE "loop"
                     /\ UNCHANGED raised
    /\ UNCHANGED <<site, file, done, persisted, loaded, clean_runs, single_run,
                   writes, textVars, jaccardVars, consultVars, clusterVars>>

\* lines 214-223: requests.get raises (connection error, timeout) and nothing
\* in download_responses or get_response catches it.  failed = 0: the request
\* of the listing page; failed = k: the request of the k-th new response of
\* the page, before the list of the page's rows is extended into responses.
FetchFails ==
    /\ \/ pc = "fetch"
       \/ pc = "loop" /\ ~CheckpointDue
    /\ LET new == NotDone(get_result_urls(site, page), done)
       IN  \E failed \in 0..Len(new) :
             /\ pages_fetched' = IF failed = 0 THEN pages_fetched
                                 ELSE Append(pages_fetched, page)
             /\ fetched' = fetched \o SubSeq(new, 1, failed)
    /\ pc' = "error"
    /\ raised' = "fetch"
    /\ UNCHANGED <<site, file, done, responses, page, max_page, persisted,
                   loaded, clean_runs, single_run, unsaved, writes, textVars,
                   jaccardVars, consultVars, clusterVars>>

\* lines 238-247: the frame of all rows, its texts and components; to_excel
\* opens the file for writing.  A frame of no rows has no column
\* 'attachment' and extract_text raises.
Finalize ==
    /\ pc = "finalize"
    /\ IF responses = <<>>
       THEN /\ pc' = "error"
            /\ raised' = "frame"
            /\ UNCHANGED <<df, edges, file>>
       ELSE /\ edges' = BuildEdges(NGramsOf(extract_text(DataFrame(responses)), n),
                                   threshold)
            /\ df' = add_components(extract_text(DataFrame(responses)), n, threshold)
            /\ file' = Torn
            /\ pc' = "final_write"
            /\ UNCHANGED raised
    /\ UNCHANGED <<site, done, responses, page, max_page, persisted, loaded,
                   fetched, pages_fetched, clean_runs, single_run, unsaved,
                   writes, textVars, jaccardVars, consultVars, threshold, cpc>>

\* lines 247-248: the write completes and the run returns the frame
FinalWriteEnd ==
    /\ pc = "final_write"
    /\ file' = to_excel(df)
    /\ persisted' = file'
    /\ writes' = Append(writes, UrlList(file'.rows))
    /\ unsaved' = 0
    /\ pc' = "done"
    /\ clean_runs' = IF loaded = Absent THEN 1
                     ELSE IF clean_runs >= 1 THEN 2 ELSE 0
    /\ single_run' = IF loaded = Absent THEN responses ELSE single_run
    /\ UNCHANGED <<site, done, responses, page, max_page, loaded, fetched,
                   pages_fetched, raised, textVars, jaccardVars, consultVars, clusterVars>>

\* the process is killed
Crash ==
    /\ pc \in Running
    /\ pc' = "crashed"
    /\ clean_runs' = 0
    /\ UNCHANGED <<site, file, done, responses, page, max_page, persisted,
                   loaded, fetched, pages_fetched, single_run, raised, unsaved,
                   writes, textVars, jaccardVars, consultVars, clusterVars>>

\* download_responses is called again for the same consultation
NewRun ==
    /\ pc \in {"done", "crashed", "error"}
    /\ pc' = "start"
    /\ done' = <<>>
    /\ responses' = <<>>
    /\ page' = 1
    /\ max_page' = 0
    /\ fetched' = <<>>
    /\ pages_fetched' = <<>>
    /\ loaded' = Absent
    /\ raised' = "none"
    /\ unsaved' = 0
    /\ writes' = <<>>
    /\ df' = <<>>
    /\ edges' = <<>>
    /\ clean_runs' = IF pc = "done" THEN clean_runs ELSE 0
    /\ UNCHANGED <<site, file, persisted, single_run, textVars, jaccardVars, consultVars,
                   threshold, cpc>>

(***************************************************************************)
(* Inputs of the calls of add_components tried by SpecCluster.              *)
(***************************************************************************)
\* the (text, text_attachment) cells of the rows tried
RowPool ==
    { <<Str(<<"a", " ", "b">>), NoneText>>,
      <<Str(<<"a">>), NoneText>>,
      <<Str(<<"b">>), NoneText>>,
      <<Str(<<"b">>), Str(<<"a">>)>>,
      <<Str(<<"a">>), Str(<<>>)>>,
      <<Str(<<>>), NoneText>>,
      <<NoneText, NoneText>> }

Row(c) == [text |-> c[1], text_attachment |-> c[2], component |-> NoneComp]

textIdle ==
    /\ text = NoneText
    /\ text_attachment = NoneText
    /\ n_gram = NoneGrams
    /\ tpc = "idle"

jaccardIdle ==
    /\ set1 = NoneGrams
    /\ set2 = NoneGrams
    /\ jaccard = NoneSim
    /\ jpc = "idle"

consultIdle ==
    /\ overview = [urls |-> <<>>, next |-> FALSE]
    /\ cfile = Absent
    /\ dpc = "idle"
    /\ cdone = <<>>
    /\ consultations = <<>>
    /\ walked = 0
    /\ parsed = <<>>
    /\ craised = "none"

clusterIdle ==
    /\ df = <<>>
    /\ edges = <<>>
    /\ cpc = "idle"

crawlIdle ==
    /\ site = [listing |-> [u \in Urls |-> {}], last |-> 0]
    /\ file = Absent
    /\ pc = "idle"
    /\ done = <<>>
    /\ responses = <<>>
    /\ page = 1
    /\ max_page = 0
    /\ persisted = Absent
    /\ loaded = Absent
    /\ fetched = <<>>
    /\ pages_fetched = <<>>
    /\ clean_runs = 0
    /\ single_run = <<>>
    /\ raised = "none"
    /\ unsaved = 0
    /\ writes = <<>>

(***************************************************************************)
(* SpecText: one call of get_ngrams on each row the bounds allow.           *)
(***************************************************************************)
InitText ==
    /\ text \in Cells(MaxTextLen)
    /\ text_attachment \in Cells(MaxAttachmentLen)
    /\ n \in 1..MaxN
    /\ n_gram = NoneGrams
    /\ tpc = "call"
    /\ threshold = DefaultThreshold
    /\ jaccardIdle
    /\ clusterIdle
    /\ crawlIdle
    /\ consultIdle

CallGetNgrams ==
    /\ tpc = "call"
    /\ n_gram' = get_ngrams(text, text_attachment, n)
    /\ tpc' = "returned"
    /\ UNCHANGED <<text, text_attachment, n, jaccardVars, consultVars, clusterVars, crawlVars,
                   historyVars>>

NextText == CallGetNgrams

SpecText == InitText /\ [][NextText]_vars

(***************************************************************************)
(* SpecJaccard: one call of jaccard_similarity on each pair of arguments    *)
(* the bounds allow: None, the empty set and the sets of n-grams.  Only the *)
(* identity of an n-gram matters to the set operations, so the n-grams are  *)
(* numbered.                                                                *)
(***************************************************************************)
GramPool == 1..MaxGrams

GramArgs == {NoneGrams} \cup {Grams(S) : S \in SUBSET GramPool}

InitJaccard ==
    /\ set1 \in GramArgs
    /\ set2 \in GramArgs
    /\ jaccard = NoneSim
    /\ jpc = "call"
    /\ n = DefaultN
    /\ threshold = DefaultThreshold
    /\ textIdle
    /\ clusterIdle
    /\ crawlIdle
    /\ consultIdle

CallJaccard ==
    /\ jpc = "call"
    /\ jaccard' = jaccard_similarity(set1, set2)
    /\ jpc' = "returned"
    /\ UNCHANGED <<set1, set2, textVars, clusterVars, crawlVars, historyVars,
                   consultVars>>

NextJaccard == CallJaccard

SpecJaccard == InitJaccard /\ [][NextJaccard]_vars

(***************************************************************************)
(* SpecCluster: one call of add_components on each frame the bounds allow.  *)
(***************************************************************************)
InitCluster ==
    /\ \E N \in 0..MaxRows : df \in [0..(N - 1) -> {Row(c) : c \in RowPool}]
    /\ threshold \in {Threshold(t) : t \in Thresholds}
    /\ n \in 1..MaxN
    /\ edges = <<>>
    /\ cpc = "call"
    /\ textIdle
    /\ jaccardIdle
    /\ crawlIdle
    /\ consultIdle

CallAddComponents ==
    /\ cpc = "call"
    /\ edges' = BuildEdges(NGramsOf(df, n), threshold)
    /\ df' = add_components(df, n, threshold)
    /\ cpc' = "returned"
    /\ UNCHANGED <<threshold, textVars, jaccardVars, consultVars, crawlVars, historyVars>>

NextCluster == CallAddComponents

SpecCluster == InitCluster /\ [][NextCluster]_vars

(***************************************************************************)
(* Spec: runs of download_responses for one consultation, one after the     *)
(* other, each run to its end or to a crash.                                *)
(***************************************************************************)
\* before the first run: no file yet
CrawlStart ==
    /\ site \in Sites
    /\ file = Absent
    /\ pc = "start"
    /\ done = <<>>
    /\ responses = <<>>
    /\ page = 1
    /\ max_page = 0
    /\ persisted = Absent
    /\ loaded = Absent
    /\ fetched = <<>>
    /\ pages_fetched = <<>>
    /\ clean_runs = 0
    /\ single_run = <<>>
    /\ raised = "none"
    /\ unsaved = 0
    /\ writes = <<>>
    /\ clusterIdle
    /\ textIdle
    /\ jaccardIdle
    /\ consultIdle

Init ==
    /\ CrawlStart
    /\ n = DefaultN
    /\ threshold = DefaultThreshold

Next ==
    \/ Load
    \/ CheckpointBegin
    \/ CheckpointEnd
    \/ FetchPage
    \/ FetchFails
    \/ Finalize
    \/ FinalWriteEnd
    \/ Crash
    \/ NewRun

Spec == Init /\ [][Next]_vars

(***************************************************************************)
(* SpecConfig: the same runs when the caller passes a threshold outside     *)
(* [0, 1].  download_responses hands n and threshold on to add_components   *)
(* (lines 243-246) and nothing looks at their values before.                *)
(***************************************************************************)
BadThresholds == {<<2, 1>>, <<-1, 10>>}

InitConfig ==
    /\ CrawlStart
    /\ n = DefaultN
    /\ threshold \in {Threshold(t) : t \in BadThresholds}

SpecConfig == InitConfig /\ [][Next]_vars

(***************************************************************************)
(* SpecConsultations: one run of download_consultations, from no file or    *)
(* from a file of rows an earlier run left at path_consultations.  Of a row *)
(* only the url is modelled.                                                *)
(***************************************************************************)
ConsultationUrls == 1..NConsultations

\* the urls of S in the order the site lists them
RECURSIVE InOrder(_)
InOrder(S) ==
    IF S = {} THEN <<>>
    ELSE LET u == CHOOSE x \in S : \A y \in S : x <= y
         IN  <<u>> \o InOrder(S \ {u})

\* the page at BASE/geslotenconsultaties: the consultations it lists and
\* whether it has a link to a next page
Overviews ==
    [urls : {InOrder(S) : S \in SUBSET ConsultationUrls}, next : BOOLEAN]

\* parse_consultation(url, save_html, dir_html)
parse_consultation(u) == [url |-> u]

PriorConsultations ==
    {Absent} \cup
    {Sheet([k \in 1..Len(InOrder(S)) |-> parse_consultation(InOrder(S)[k])]) :
        S \in (SUBSET ConsultationUrls) \ {{}}}

InitConsultations ==
    /\ overview \in Overviews
    /\ cfile \in PriorConsultations
    /\ dpc = "start"
    /\ cdone = <<>>
    /\ consultations = <<>>
    /\ walked = 0
    /\ parsed = <<>>
    /\ craised = "none"
    /\ n = DefaultN
    /\ threshold = DefaultThreshold
    /\ textIdle
    /\ jaccardIdle
    /\ clusterIdle
    /\ crawlIdle

\* lines 292-304: read the file; a missing file is an empty start
LoadConsultations ==
    /\ dpc = "start"
    /\ IF cfile.state = "absent"
       THEN /\ cdone' = <<>>
            /\ consultations' = <<>>
       ELSE /\ cdone' = UrlList(cfile.rows)
            /\ consultations' = cfile.rows
    /\ walked' = 0
    /\ dpc' = "loop"
    /\ UNCHANGED <<overview, cfile, parsed, craised, textVars, jaccardVars,
                   clusterVars, crawlVars, historyVars>>

ConsultationsCheckpointDue == walked % CheckpointPages = 0 /\ consultations # <<>>

\* lines 307-312: the rows held are written to the file
CheckpointConsultations ==
    /\ dpc = "loop"
    /\ ConsultationsCheckpointDue
    /\ cfile' = Sheet(consultations)
    /\ dpc' = "fetch"
    /\ UNCHANGED <<overview, cdone, consultations, walked, parsed, craised,
                   textVars, jaccardVars, clusterVars, crawlVars, historyVars>>

\* lines 313-321: the listing page and the consultations it lists that are
\* not in done; then line 321 calls get_next_link, a name the module does
\* not define (its definition, lines 30-35, is commented out): NameError,
\* before "i += 1" and before any write
WalkPage ==
    /\ \/ dpc = "fetch"
       \/ dpc = "loop" /\ ~ConsultationsCheckpointDue
    /\ LET new == NotDone(overview.urls, cdone)
       IN  /\ parsed' = parsed \o new
           /\ consultations' =
                  consultations \o [k \in 1..Len(new) |-> parse_consultation(new[k])]
    /\ craised' = "NameError"
    /\ dpc' = "error"
    /\ UNCHANGED <<overview, cfile, cdone, walked, textVars, jaccardVars,
                   clusterVars, crawlVars, historyVars>>

NextConsultations ==
    \/ LoadConsultations
    \/ CheckpointConsultations
    \/ WalkPage

SpecConsultations == InitConsultations /\ [][NextConsultations]_vars

(***************************************************************************)
(* Helpers of the properties.                                               *)
(***************************************************************************)
SeqSet(sq) == {sq[i] : i \in 1..Len(sq)}

NoDuplicates(sq) == \A i, j \in 1..Len(sq) : sq[i] = sq[j] => i = j

\* the run has read the file and has not crashed
Collecting == pc \in {"loop", "checkpoint", "fetch", "finalize", "final_write", "done"}

\* the state right after the read of the file
JustLoaded == pc \in {"loop", "error"} /\ page = 1

\* the nodes joined to a node of S by a path of pairs of E (a set of pairs)
RECURSIVE Joined(_, _)
Joined(E, S) ==
    LET step == S \cup {e[2] : e \in {x \in E : x[1] \in S}}
                  \cup {e[1] : e \in {x \in E : x[2] \in S}}
    IN  IF step = S THEN S ELSE Joined(E, step)

\* the pairs of rows whose similarity is not None and at least the threshold
PassingPairs ==
    {e \in (DOMAIN df) \X (DOMAIN df) :
        /\ e[1] < e[2]
        /\ LET sim == jaccard_similarity(NGramsOf(df, n)[e[1]], NGramsOf(df, n)[e[2]])
           IN  ~sim.isNone /\ AtLeast(sim, threshold)}

SetMin(S) == CHOOSE x \in S : \A y \in S : x <= y

\* the least row of the component of row i, every row being a node
LeastOf(i) == SetMin(Joined(SeqSet(edges), {i}))

(***************************************************************************)
(* C1.  In every state of a run after the file is read, no two rows of      *)
(* responses have the same url, and the urls used to filter (done) are the  *)
(* urls of the rows of responses.                                           *)
(***************************************************************************)
C1_NoDuplicatesKnownIsRecords ==
    Collecting =>
        /\ NoDuplicates(UrlList(responses))
        /\ SeqSet(done) = SeqSet(UrlList(responses))

(***************************************************************************)
(* C2.  Resume idempotence: a run that completes, started from the file a   *)
(* completed first run left, ends with rows that have no duplicate url and  *)
(* the same set of urls as the rows of that first run from no file.         *)
(***************************************************************************)
C2_ResumeIdempotence ==
    (pc = "done" /\ clean_runs = 2) =>
        /\ NoDuplicates(UrlList(responses))
        /\ SeqSet(UrlList(responses)) = SeqSet(UrlList(single_run))

(***************************************************************************)
(* C3.  Writes are atomic with respect to a crash: what a run's read of the *)
(* file gives is the content of the last write that completed, also when    *)
(* the process crashed during a write.                                      *)
(***************************************************************************)
C3_AtomicCheckpoint == JustLoaded => loaded = persisted

(***************************************************************************)
(* C4.  Clustering is a partition: after add_components every row holds an  *)
(* integer component, and two rows hold the same component exactly when a   *)
(* path of threshold-passing pairs joins them.                              *)
(***************************************************************************)
C4_ClusteringIsPartition ==
    cpc = "returned" =>
        /\ \A i \in DOMAIN df : ~df[i].component.isNone
        /\ \A i, j \in DOMAIN df :
               (df[i].component = df[j].component) <=> (j \in Joined(PassingPairs, {i}))

(***************************************************************************)
(* C5.  The edges add_components builds are exactly the pairs (i, j), i < j,*)
(* whose similarity is not None and >= threshold, also for threshold 0 and  *)
(* a similarity of 0.                                                       *)
(***************************************************************************)
C5_EdgeSetExact == cpc = "returned" => SeqSet(edges) = PassingPairs

(***************************************************************************)
(* C6.  A run never calls get_response for a url that is in the file the    *)
(* run started from.                                                        *)
(***************************************************************************)
C6_NeverRefetch ==
    \A i \in 1..Len(fetched) : fetched[i] \notin SeqSet(UrlList(loaded.rows))

\* a run started from a file with rows has requested a page that lists one
\* of those rows' urls, and has fetched another response
C6_Witness ==
    /\ Collecting
    /\ loaded.state = "written"
    /\ fetched # <<>>
    /\ \E k \in 1..Len(pages_fetched) :
           \E u \in SeqSet(UrlList(loaded.rows)) : pages_fetched[k] \in site.listing[u]

C8_DiscoveryOrderIds ==
    cpc = "returned" =>
        \A i \in DOMAIN df :
            df[i].component =
                Comp(Cardinality({LeastOf(j) : j \in {r \in DOMAIN df : LeastOf(r) < LeastOf(i)}}))

\* the canonical text of a row: the attachment's text when present and not
\* empty, else the inline text when present and not empty, else none
CanonicalText(t, ta) ==
    IF ~ta.isNone /\ ta.val # <<>> THEN ta
    ELSE IF ~t.isNone /\ t.val # <<>> THEN t
    ELSE NoneText

(***************************************************************************)
(* C9.  The text get_ngrams shingles is the attachment's text when that is  *)
(* present and not empty, else the inline text when that is present and not *)
(* empty, else none: what it returns is what it returns for the canonical   *)
(* text alone.                                                              *)
(***************************************************************************)
C9_CanonicalTextSelection ==
    tpc = "returned" =>
        n_gram = get_ngrams(CanonicalText(text, text_attachment), NoneText, n)

\* the whitespace-separated tokens of s, stated by their places: a token is
\* a maximal run s[i..j] without whitespace; the tokens in the order of i
TokenRuns(s) ==
    {r \in (1..Len(s)) \X (1..Len(s)) :
        /\ r[1] <= r[2]
        /\ \A k \in r[1]..r[2] : s[k] \notin Whitespace
        /\ r[1] = 1 \/ s[r[1] - 1] \in Whitespace
        /\ r[2] = Len(s) \/ s[r[2] + 1] \in Whitespace}

TokensOf(s) ==
    [k \in 1..Cardinality(TokenRuns(s)) |->
        LET r == CHOOSE x \in TokenRuns(s) :
                     Cardinality({y \in TokenRuns(s) : y[1] < x[1]}) = k - 1
        IN  SubSeq(s, r[1], r[2])]

\* the runs of k consecutive tokens
Windows(tokens, k) ==
    {SubSeq(tokens, w[1], w[2]) : w \in
        {x \in (1..Len(tokens)) \X (1..Len(tokens)) : x[2] - x[1] + 1 = k}}

(***************************************************************************)
(* C10 as claimed.  get_ngrams returns None when the text it goes on with   *)
(* is absent, empty or has fewer than n whitespace-separated tokens, and    *)
(* else the set of the runs of n consecutive tokens.                        *)
(***************************************************************************)
C10_ShinglingNoneWhenFewTokens ==
    tpc = "returned" =>
        LET txt == SelectTxt(text, text_attachment)
        IN  IF txt.isNone \/ txt.val = <<>> \/ Len(TokensOf(txt.val)) < n
            THEN n_gram = NoneGrams
            ELSE n_gram = Grams(Windows(TokensOf(txt.val), n))

(***************************************************************************)
(* C10 as amended.  get_ngrams returns None when the text it goes on with   *)
(* is absent or empty, and else the set of the runs of n consecutive        *)
(* tokens, which is the empty set (not None) for fewer than n tokens.       *)
(***************************************************************************)
C10_Shingling ==
    tpc = "returned" =>
        LET txt == SelectTxt(text, text_attachment)
        IN  /\ (txt.isNone \/ txt.val = <<>>) => n_gram = NoneGrams
            /\ (~txt.isNone /\ txt.val # <<>>) =>
                   /\ n_gram = Grams(Windows(TokensOf(txt.val), n))
                   /\ Len(TokensOf(txt.val)) < n => n_gram = Grams({})

\* get_ngrams has returned for a text that is not empty and has fewer than n
\* tokens, and for none of them: a text of whitespace only
C10_Witness ==
    /\ tpc = "returned"
    /\ ~SelectTxt(text, text_attachment).isNone
    /\ SelectTxt(text, text_attachment).val = <<" ", " ">>
    /\ n_gram = Grams({})

(***************************************************************************)
(* C11.  jaccard_similarity(a, b) returns None exactly when a or b is None  *)
(* or an empty set; otherwise it returns |a & b| / |a | b|, which lies in   *)
(* [0, 1], is 1 when a = b and is the same for (a, b) and (b, a).           *)
(***************************************************************************)
NoneOrEmpty(g) == g.isNone \/ g.grams = {}

C11_JaccardSimilarity ==
    jpc = "returned" =>
        /\ jaccard.isNone <=> (NoneOrEmpty(set1) \/ NoneOrEmpty(set2))
        /\ ~jaccard.isNone =>
              /\ jaccard.num = Cardinality(set1.grams \cap set2.grams)
              /\ jaccard.den = Cardinality(set1.grams \cup set2.grams)
              /\ 0 <= jaccard.num
              /\ jaccard.num <= jaccard.den
              /\ jaccard.den > 0
              /\ set1 = set2 => jaccard.num = jaccard.den
              /\ jaccard = jaccard_similarity(set2, set1)

\* two sets that share some n-grams and not others
C11_Witness ==
    /\ jpc = "returned"
    /\ ~jaccard.isNone
    /\ 0 < jaccard.num
    /\ jaccard.num < jaccard.den
    /\ Cardinality(set1.grams) # Cardinality(set2.grams)

(***************************************************************************)
(* C12.  A configuration error (n < 1, or threshold outside [0, 1]) is      *)
(* fatal at startup: a run called with such a value requests no listing     *)
(* page and no response, writes no file and does not end normally.          *)
(***************************************************************************)
ConfigurationError ==
    \/ n < 1
    \/ threshold.num < 0
    \/ threshold.num > threshold.den

C12_ConfigurationErrorFatalAtStartup ==
    ConfigurationError =>
        /\ pages_fetched = <<>>
        /\ fetched = <<>>
        /\ file = Absent
        /\ pc # "done"

(***************************************************************************)
(* C13.  A fetch that fails (the request of a listing page or of a          *)
(* response raising a network error or a timeout) is taken as "no new       *)
(* records this batch": the run is not ended by it and goes on collecting   *)
(* with the rows it has.                                                    *)
(***************************************************************************)
C13_FailedFetchNotFatal ==
    raised = "fetch" => pc \in Running \/ pc = "done"

(***************************************************************************)
(* C14.  Checkpoint cadence: while collecting, the run writes the rows it   *)
(* has every K listing pages (K = 10 unless configured otherwise), so that  *)
(* no more than K pages in a row are processed without a write in between   *)
(* (stated for the runs that hold rows to write).                           *)
(***************************************************************************)
C14_CheckpointCadence ==
    pc \in Running /\ responses # <<>> => unsaved <= CheckpointPages

(***************************************************************************)
(* C15.  A file that exists and cannot be read is fatal at loading: the run *)
(* stops with the error of the read, requests nothing, holds no rows (it    *)
(* does not go on from an empty state) and leaves the file as it was; only  *)
(* a missing file is an empty start.                                        *)
(***************************************************************************)
C15_UnreadableStateFatal ==
    /\ loaded.state = "torn" =>
          /\ pc = "error"
          /\ raised = "read"
          /\ pages_fetched = <<>>
          /\ fetched = <<>>
          /\ responses = <<>>
          /\ writes = <<>>
          /\ file = loaded
    /\ pc = "loop" /\ page = 1 /\ responses = <<>> => loaded = Absent

\* a run that met the file a killed write left
C15_Witness ==
    /\ loaded.state = "torn"
    /\ pc = "error"
    /\ persisted.state = "written"

(***************************************************************************)
(* C16.  Threshold monotonicity: for the same rows and thresholds           *)
(* t1 <= t2 in [0, 1], t1 = 0 included, the edges add_components builds at  *)
(* t1 contain the edges it builds at t2.  The call at the state's threshold *)
(* is compared with the edges of every other threshold tried.               *)
(***************************************************************************)
ThresholdLeq(t1, t2) == t1.num * t2.den <= t2.num * t1.den

EdgeSetAt(t) == SeqSet(BuildEdges(NGramsOf(df, n), t))

AllThresholds == {Threshold(t) : t \in Thresholds}

C16_ThresholdMonotonicity ==
    cpc = "returned" =>
        \A t \in AllThresholds :
            /\ ThresholdLeq(threshold, t) => EdgeSetAt(t) \subseteq SeqSet(edges)
            /\ ThresholdLeq(t, threshold) => SeqSet(edges) \subseteq EdgeSetAt(t)

\* threshold 0 keeps an edge that a higher threshold drops
C16_Witness ==
    /\ cpc = "returned"
    /\ threshold.num = 0
    /\ edges # <<>>
    /\ \E t \in AllThresholds :
          /\ ThresholdLeq(threshold, t)
          /\ EdgeSetAt(t) # SeqSet(edges)
          /\ EdgeSetAt(t) # {}

(***************************************************************************)
(* C17.  Isolated text: at every threshold a row whose canonical text is    *)
(* absent or empty is an end of no edge and becomes a cluster of its own:   *)
(* it holds a component, and no other row, with or without text, holds the  *)
(* same one.                                                                *)
(***************************************************************************)
NoCanonicalText(i) == CanonicalText(df[i].text, df[i].text_attachment).isNone

C17_IsolatedText ==
    cpc = "returned" =>
        \A i \in DOMAIN df :
            NoCanonicalText(i) =>
                /\ \A k \in 1..Len(edges) : edges[k][1] # i /\ edges[k][2] # i
                /\ ~df[i].component.isNone
                /\ \A j \in DOMAIN df : j # i => df[j].component # df[i].component

\* the number of rows of a url column that hold the url
Count(u, urls) == Cardinality({i \in 1..Len(urls) : urls[i] = u})

\* every row of the first url column is a row of the second
Contains(urls1, urls2) == \A u \in SeqSet(urls1) : Count(u, urls1) <= Count(u, urls2)

(***************************************************************************)
(* C18.  The persisted state never shrinks: every write a run completes     *)
(* (checkpoint or final) holds every row of the file the run read at its    *)
(* start and every row of every earlier write of the run.                   *)
(***************************************************************************)
C18_PersistedNeverShrinks ==
    \A k \in 1..Len(writes) :
        /\ Contains(UrlList(loaded.rows), writes[k])
        /\ \A j \in 1..(k - 1) : Contains(writes[j], writes[k])

\* a run resumed from a file with rows has written a checkpoint and then a
\* final file with more rows
C18_Witness ==
    /\ pc = "done"
    /\ loaded.rows # <<>>
    /\ Len(writes) = 2
    /\ Len(writes[2]) > Len(writes[1])
    /\ Len(writes[2]) > Len(loaded.rows)

(***************************************************************************)
(* C19.  Completeness on normal termination: when a run returns, from any   *)
(* prior file, every url listed on a listing page the run requested is the  *)
(* url of a row of the file, the rows of the file it read are rows of the   *)
(* file, and the components were computed over all the rows, those of the   *)
(* prior runs included: every pair of rows of the file that passes the      *)
(* threshold is an edge and its rows hold one component.                    *)
(***************************************************************************)
C19_CompleteOnTermination ==
    pc = "done" =>
        /\ \A k \in 1..Len(pages_fetched) :
               \A u \in Urls :
                   pages_fetched[k] \in site.listing[u]
                       => u \in SeqSet(UrlList(file.rows))
        /\ SeqSet(pages_fetched) = 1..max_page
        /\ Contains(UrlList(loaded.rows), UrlList(file.rows))
        /\ file = to_excel(df)
        /\ NRows(df) = Len(responses)
        /\ \A i \in DOMAIN df : df[i].url = responses[i + 1].url
        /\ PassingPairs \subseteq SeqSet(edges)
        /\ \A e \in PassingPairs :
               /\ ~df[e[1]].component.isNone
               /\ df[e[1]].component = df[e[2]].component

\* a run resumed from a file with rows has fetched a response that is
\* similar to a row of that file
C19_Witness ==
    /\ pc = "done"
    /\ loaded.rows # <<>>
    /\ fetched # <<>>
    /\ \E e \in PassingPairs : e[1] < Len(loaded.rows) /\ e[2] >= Len(loaded.rows)

(***************************************************************************)
(* C20.  download_consultations walks the listing to its end: once the run  *)
(* is over it has ended normally, at a listing page with no next link, and  *)
(* every consultation it parsed is a row of the file at path_consultations. *)
(***************************************************************************)
C20_ConsultationsWalkCompletes ==
    dpc \in {"done", "error"} =>
        /\ craised = "none"
        /\ ~overview.next
        /\ \A k \in 1..Len(parsed) : parsed[k] \in SeqSet(UrlList(cfile.rows))

====
